---- MODULE Spec2Model ----
(***************************************************************************)
(* Model of the GMB pipeline of src/main.py: extract_place_id_from_url,    *)
(* get_store_details and run_gmb_pipeline (read input, fetch per row,      *)
(* merge, KPI aggregation, worksheet writes).                              *)
(*                                                                         *)
(* Representation.                                                         *)
(*  - A Python str is a sequence of atoms; an atom is a run of characters  *)
(*    ("https:", "/", "place", "place_id:", "ChIJ", "x17", ...) whose      *)
(*    character count is AtomLen.  No atom contains a character that the   *)
(*    code searches for except the atom that is exactly that text.         *)
(*  - A Python value read from a cell is a record [t, s, n]: t = "str"     *)
(*    with atoms s, t = "int" with number n, t = "none" for None.          *)
(*  - An optional number or text (None or a value) is <<>> or <<v>>.       *)
(*  - Ratings are held in tenths (4.9 is 49), review counts as integers,   *)
(*    a weighted average as the exact fraction [num, den].                 *)
(***************************************************************************)
EXTENDS Integers, Sequences, FiniteSets, TLC

\* ------------------------------------------------------------------ bounds
MaxParts == 3
MaxRows == 2
MaxRuns == 2
MaxDay == 2

\* ------------------------------------------------------- Python values
None == [t |-> "none", s |-> <<>>, n |-> 0]
PyStr(atoms) == [t |-> "str", s |-> atoms, n |-> 0]
PyInt(k) == [t |-> "int", s |-> <<>>, n |-> k]

NoValue == <<>>
Some(v) == <<v>>

\* characters in an atom
AtomLen(a) ==
    CASE a = "https:" -> 6
      [] a = "place" -> 5
      [] a = "place_id:" -> 9
      [] a = "ChIJ" -> 4
      [] a = "GhIJ" -> 4
      [] a = "x17" -> 17
      [] OTHER -> 1

RECURSIVE StrLen(_)
StrLen(s) == IF s = <<>> THEN 0 ELSE AtomLen(Head(s)) + StrLen(Tail(s))

\* `sub in s` for atom sequences
Contains(s, sub) ==
    \E i \in 1..(Len(s) - Len(sub) + 1) : SubSeq(s, i, i + Len(sub) - 1) = sub

HTTPS == <<"https:", "/", "/">>
PLACE == <<"/", "place", "/">>
PLACE_ID == <<"place_id:">>

\* s.split(sep) for a one-character separator
RECURSIVE Split(_, _)
Split(s, sep) ==
    IF \A i \in 1..Len(s) : s[i] # sep
    THEN <<s>>
    ELSE LET k == CHOOSE i \in 1..Len(s) : s[i] = sep /\ \A j \in 1..(i - 1) : s[j] # sep
         IN  <<SubSeq(s, 1, k - 1)>> \o Split(SubSeq(s, k + 1, Len(s)), sep)

\* the longest prefix of s made of atoms outside stop
RECURSIVE TakeWhileNot(_, _)
TakeWhileNot(s, stop) ==
    IF s = <<>> \/ Head(s) \in stop THEN <<>>
    ELSE <<Head(s)>> \o TakeWhileNot(Tail(s), stop)

\* re.search(r'place_id:([^&.?]+)', url): the positions where a match starts
RegexStops == {"&", ".", "?"}
MatchStarts(s) ==
    {i \in 1..(Len(s) - 1) : s[i] = "place_id:" /\ s[i + 1] \notin RegexStops}

\* part.split('?')[0].split('!')[0]
PotentialId(part) == Split(Split(part, "?")[1], "!")[1]

MinIdLen == 20
IsPlaceIdShaped(p) ==
    /\ p # <<>>
    /\ Head(p) \in {"ChIJ", "GhIJ"}
    /\ StrLen(p) > MinIdLen

extract_place_id_from_url(url) ==
    IF url.t # "str" THEN None
    ELSE IF MatchStarts(url.s) # {}
    THEN LET i == CHOOSE k \in MatchStarts(url.s) : \A j \in MatchStarts(url.s) : k <= j
         IN  PyStr(TakeWhileNot(SubSeq(url.s, i + 1, Len(url.s)), RegexStops))
    ELSE IF ~Contains(url.s, PLACE_ID) /\ Contains(url.s, PLACE)
    THEN LET parts == Split(url.s, "/")
             hits == {k \in 1..Len(parts) : IsPlaceIdShaped(PotentialId(parts[k]))}
         IN  IF hits = {} THEN None
             ELSE PyStr(PotentialId(parts[CHOOSE k \in hits : \A j \in hits : j <= k]))
    ELSE None

\* Python truthiness of a cell value
Truthy(v) ==
    CASE v.t = "str" -> v.s # <<>>
      [] v.t = "int" -> v.n # 0
      [] OTHER -> FALSE

\* 'https://' in str(v)
HasHttps(v) == v.t = "str" /\ Contains(v.s, HTTPS)

\* variant of line 30 that runs the extractor on every value
ResolveAlwaysExtract(v) == extract_place_id_from_url(v)
\* line 30: the place id handed to the oracle
ResolvePlaceId(v) == IF HasHttps(v) THEN extract_place_id_from_url(v) ELSE v

\* ------------------------------------------------------- oracle answers
\* What gmaps_client.place would do if called: answer OK with a result whose
\* fields may be missing, answer with another status, or raise.
OkResponse(r, n, b) ==
    [kind |-> "OK", rating |-> r, user_ratings_total |-> n, business_status |-> b, text |-> ""]
StatusResponse(st) ==
    [kind |-> "STATUS", rating |-> NoValue, user_ratings_total |-> NoValue,
     business_status |-> NoValue, text |-> st]
RaiseResponse(msg) ==
    [kind |-> "RAISE", rating |-> NoValue, user_ratings_total |-> NoValue,
     business_status |-> NoValue, text |-> msg]

FailResponses == {StatusResponse("ZERO_RESULTS"), RaiseResponse("timeout"), RaiseResponse("")}

\* A returned dict.  keys = "full" when the dict carries 'Total Reviews',
\* 'Rating' and 'Api Business Status' (line 40-46), "error" when it carries
\* only 'Original URL' and 'Error' (lines 33, 48, 50).
\* variant of the error dict that carries zeros for the two numbers
ErrorDictZero(v, msg) ==
    [Original_URL |-> v, keys |-> "error", Total_Reviews |-> Some(0), Rating |-> Some(0),
     Api_Business_Status |-> NoValue, Error |-> Some(msg)]
ErrorDict(v, msg) ==
    [Original_URL |-> v, keys |-> "error", Total_Reviews |-> NoValue, Rating |-> NoValue,
     Api_Business_Status |-> NoValue, Error |-> Some(msg)]

\* [ret |-> the dict returned, calls |-> the place ids the oracle was called with]
get_store_details(v, resp) ==
    LET place_id == ResolvePlaceId(v) IN
    IF ~Truthy(place_id)
    THEN [ret |-> ErrorDict(v, <<"Could not extract Place ID">>), calls |-> <<>>]
    ELSE [calls |-> <<place_id>>,
          ret |->
            CASE resp.kind = "OK" ->
                    [Original_URL |-> v, keys |-> "full",
                     Total_Reviews |-> resp.user_ratings_total,
                     Rating |-> resp.rating,
                     Api_Business_Status |-> resp.business_status,
                     Error |-> NoValue]
              [] resp.kind = "STATUS" -> ErrorDict(v, <<"API Error: ", resp.text>>)
              [] OTHER -> ErrorDict(v, <<resp.text>>)]

\* ------------------------------------------------------- data frames
\* pd.DataFrame(all_store_data): the columns are the keys of the dicts
FetchedColumns(rows) ==
    UNION {IF rows[i].keys = "full"
           THEN {"Original URL", "Total Reviews", "Rating", "Api Business Status", "Error"}
           ELSE {"Original URL", "Error"} : i \in 1..Len(rows)}

cols_to_merge == {"Original URL", "Total Reviews", "Rating", "Api Business Status"}

\* pd.to_numeric(col).fillna(0)
ToNumericFill(opt) == IF opt = NoValue THEN 0 ELSE opt[1]

MergedRow(left, tr, rt, st) ==
    [Original_URL |-> left.store_locator, Experience_Center |-> left.Experience_Center,
     Region |-> left.Region, Total_Reviews |-> ToNumericFill(tr), Rating |-> ToNumericFill(rt),
     Api_Business_Status |-> st]

\* the rows of a left join for one left row: every right row with the same
\* key, in the right table's order; one row of nulls when there is none
JoinOne(left, fetched) ==
    LET Same(f) == f.Original_URL = left.store_locator
        hits == SelectSeq(fetched, Same)
    IN  IF hits = <<>> THEN <<MergedRow(left, NoValue, NoValue, NoValue)>>
        ELSE [j \in 1..Len(hits) |->
                MergedRow(left, hits[j].Total_Reviews, hits[j].Rating, hits[j].Api_Business_Status)]

\* lines 100-107: pd.merge(..., on='Original URL', how='left') and the two fillna
RECURSIVE Merge(_, _)
Merge(input, fetched) ==
    IF input = <<>> THEN <<>>
    ELSE JoinOne(Head(input), fetched) \o Merge(Tail(input), fetched)

\* variant of line 112 without the filter
NotClosedKeepAll(r) == TRUE
\* line 112
NotClosed(r) == r.Api_Business_Status # Some("PERMANENTLY_CLOSED")
FilterOpen(merged) == SelectSeq(merged, NotClosed)

\* lines 118-126, in the dict's insertion order
SegmentNames ==
    <<"All Wakefit Stores", "COCO Stores", "Non COCO Stores", "North", "South", "East", "West">>

InSegment(name, r) ==
    CASE name = "All Wakefit Stores" -> TRUE
      [] name = "COCO Stores" -> r.Experience_Center = 1
      [] name = "Non COCO Stores" -> r.Experience_Center = 0
      [] OTHER -> r.Region = name

SegmentFrame(name, df) ==
    LET Keep(r) == InSegment(name, r) IN SelectSeq(df, Keep)

RECURSIVE SumReviews(_)
SumReviews(df) == IF df = <<>> THEN 0 ELSE Head(df).Total_Reviews + SumReviews(Tail(df))

RECURSIVE SumWeighted(_)
SumWeighted(df) ==
    IF df = <<>> THEN 0 ELSE Head(df).Rating * Head(df).Total_Reviews + SumWeighted(Tail(df))

\* np.average(ratings, weights=reviews) as an exact fraction of tenths; 0 is 0/1
Zero == [num |-> 0, den |-> 1]
\* variant: the plain mean of the ratings times reviews
AverageUnweighted(df) == [num |-> SumWeighted(df), den |-> Len(df)]
Average(df) == [num |-> SumWeighted(df), den |-> SumReviews(df)]

TopRating == 49
MidRating == 40
IsTop(r) == r.Rating >= TopRating
\* variant of line 137 with 4.0 left out of the middle bucket
IsMidStrict(r) == r.Rating > MidRating /\ r.Rating < TopRating
IsMid(r) == r.Rating >= MidRating /\ r.Rating < TopRating
IsLow(r) == r.Rating < MidRating

\* lines 129-140
KpiRow(name, temp_df, snapshot_date) ==
    LET total_reviews == SumReviews(temp_df) IN
    [Segment |-> name,
     Total_Reviews |-> total_reviews,
     Visible_Rating |-> IF total_reviews > 0 THEN Average(temp_df) ELSE Zero,
     No_of_Stores |-> Len(temp_df),
     Top |-> Len(SelectSeq(temp_df, IsTop)),
     Mid |-> Len(SelectSeq(temp_df, IsMid)),
     Low |-> Len(SelectSeq(temp_df, IsLow)),
     Snapshot_date |-> snapshot_date]

\* lines 112-142
KpiFrame(merged, snapshot_date) ==
    LET df == FilterOpen(merged) IN
    [k \in 1..Len(SegmentNames) |->
        KpiRow(SegmentNames[k], SegmentFrame(SegmentNames[k], df), snapshot_date)]

\* line 147: merged_df.drop(columns=['Api Business Status']); the rename of
\* line 113 is made on the copy df, so this frame's column is still 'Rating'
DropStatus(merged) ==
    [i \in 1..Len(merged) |->
        [Original_URL |-> merged[i].Original_URL,
         Experience_Center |-> merged[i].Experience_Center,
         Region |-> merged[i].Region,
         Total_Reviews |-> merged[i].Total_Reviews,
         Rating |-> merged[i].Rating]]

\* ------------------------------------------------------- the workbook
\* A workbook is a function from worksheet titles to the rows in the sheet.
\* datetime.now() is [day, tick]; tick tells two moments of a day apart.
\* variant of line 115 that formats the whole timestamp
strftime_stamp(t) == t.day * 100 + t.tick
\* line 115: strftime('%Y-%m-%d')
strftime_date(t) == t.day

store_worksheet_name(snapshot_date) == <<"Store_Data", snapshot_date>>
kpi_worksheet_name(snapshot_date) == <<"KPI_Data", snapshot_date>>

EmptyBook == [x \in {} |-> <<>>]
Put(wb, title, rows) == [x \in DOMAIN wb \cup {title} |-> IF x = title THEN rows ELSE wb[x]]

\* lines 164-168 and 173-177: worksheet(title).clear(), or add_worksheet on
\* WorksheetNotFound; either way the sheet titled title is there and empty
ClearOrAdd(wb, title) == Put(wb, title, <<>>)

\* gd.set_with_dataframe(ws, df): the frame's rows overwrite the sheet's top
\* rows; rows of the sheet below the frame are left as they are.  The header
\* row, fixed by the frame's columns, and the pass-through columns other than
\* 'Experience Center' and 'Region' are left out.
set_with_dataframe(wb, title, df) ==
    Put(wb, title, df \o SubSeq(wb[title], Len(df) + 1, Len(wb[title])))

\* ------------------------------------------------------- state
VARIABLES
    pc,              \* position of the current run of run_gmb_pipeline ("idle": none yet)
    now,             \* datetime.now(): [day, tick]
    runs,            \* invocations so far
    df_input,        \* line 80
    all_store_data,  \* line 85
    calls,           \* place ids gmaps_client.place was called with in this run
    merged_df,       \* line 100
    kpi_df,          \* line 142
    out_wb,          \* the output workbook 'Wakefit_GMB_Pipeline_Output'
    wb_log,          \* the operations of this run on out_wb, in order
    result,          \* what the run returned: <<>> or <<[message, status]>>
    last_ok,         \* the last run before this one that returned 200: <<>> or
                     \* <<[day, input, fetched, wb]>>
    arg, resp, ret   \* one call of get_store_details: its argument, the oracle's
                     \* answer, and <<>> or <<[ret, calls]>>

vars == <<pc, now, runs, df_input, all_store_data, calls, merged_df, kpi_df, out_wb,
          wb_log, result, last_ok, arg, resp, ret>>

run_vars == <<pc, now, runs, df_input, all_store_data, calls, merged_df, kpi_df, out_wb,
              wb_log, result, last_ok>>
call_vars == <<arg, resp, ret>>

snapshot_date == strftime_date(now)

\* ------------------------------------------------------- inputs
\* input rows: the 'store locator' cell, 'Experience Center' and 'Region'
Row(u, e, g) == [store_locator |-> u, Experience_Center |-> e, Region |-> g]

RawId == PyStr(<<"ChIJ", "x17">>)
OtherId == PyStr(<<"GhIJ", "x17">>)
PlaceUrl == PyStr(HTTPS \o PLACE \o <<"ChIJ", "x17">>)
BadUrl == PyStr(HTTPS \o <<"x">>)
Empty == PyStr(<<>>)

TablesOver(rows, n) == UNION {[1..k -> rows] : k \in 0..n}

\* the tables of the runs with faults and reruns
RunTables ==
    {<<>>,
     <<Row(BadUrl, 1, "North")>>,
     <<Row(RawId, 1, "North")>>,
     <<Row(RawId, 1, "North"), Row(RawId, 0, "South")>>,
     <<Row(PlaceUrl, 0, "South"), Row(Empty, 1, "West")>>}
RunResponses ==
    {OkResponse(Some(49), Some(10), Some("OPERATIONAL")),
     OkResponse(Some(40), NoValue, Some("PERMANENTLY_CLOSED")),
     RaiseResponse("timeout")}

\* the tables of the KPI runs
KpiRowValues ==
    {Row(IF g = "North" THEN RawId ELSE OtherId, e, g) : e \in {0, 1}, g \in {"North", "South"}}
        \cup {Row(RawId, 1, "East"), Row(OtherId, 0, "West")}
KpiTables == TablesOver(KpiRowValues, MaxRows)
KpiResponses ==
    {OkResponse(Some(49), Some(10), Some("OPERATIONAL")),
     OkResponse(Some(40), Some(30), NoValue),
     OkResponse(Some(38), Some(10), Some("OPERATIONAL")),
     OkResponse(Some(49), Some(30), Some("PERMANENTLY_CLOSED")),
     StatusResponse("ZERO_RESULTS")}

\* the arguments of the single calls of get_store_details
Components ==
    {HTTPS, PLACE, PLACE_ID, <<"ChIJ", "x17">>, <<"GhIJ", "x17">>, <<"ChIJ">>,
     <<"x">>, <<"&">>, <<"?">>, <<"!">>, <<".">>, <<"/">>}
RECURSIVE Concats(_)
Concats(k) ==
    IF k = 0 THEN {<<>>}
    ELSE LET shorter == Concats(k - 1) IN shorter \cup {p \o c : p \in shorter, c \in Components}
CellValues == {PyStr(a) : a \in Concats(MaxParts)} \cup {PyInt(0), PyInt(7)}
CallResponses ==
    {OkResponse(r, n, NoValue) : r \in {NoValue, Some(49)}, n \in {NoValue, Some(10)}}
        \cup FailResponses

\* ------------------------------------------------------- run_gmb_pipeline
Returned(message, status) == Some([message |-> message, status |-> status])

\* variant of line 188 that reports success
HandleExceptionOk(e) == Returned(<<"Pipeline failed: ", e>>, 200)
\* lines 184-188
HandleException(e) == Returned(<<"Pipeline failed: ", e>>, 500)
\* line 182
ReturnSuccess == Returned(<<"Pipeline executed successfully.">>, 200)

\* variant with the blocks of lines 163-170 and 172-178 swapped
PcAfterKpiFirst(p) ==
    CASE p = "compute" -> "open_out"
      [] p = "open_out" -> "kpi_ws"
      [] p = "kpi_ws" -> "kpi_set"
      [] p = "kpi_set" -> "store_ws"
      [] p = "store_ws" -> "store_set"
      [] OTHER -> "done"
\* the order of the statements that touch the outside world after line 157
PcAfter(p) ==
    CASE p = "compute" -> "open_out"
      [] p = "open_out" -> "store_ws"
      [] p = "store_ws" -> "store_set"
      [] p = "store_set" -> "kpi_ws"
      [] p = "kpi_ws" -> "kpi_set"
      [] OTHER -> "done"

Finish(p) == IF PcAfter(p) = "done" THEN ReturnSuccess ELSE result

\* a request arrives: a new run starts, later on the same day or on the next
Invoke(limit) ==
    /\ pc \in {"idle", "done"}
    /\ runs < limit
    /\ \E d \in {now.day, now.day + 1} :
          /\ d <= MaxDay
          /\ now' = [day |-> d, tick |-> runs + 1]
    /\ runs' = runs + 1
    /\ pc' = "auth"
    /\ df_input' = <<>>
    /\ all_store_data' = <<>>
    /\ calls' = <<>>
    /\ merged_df' = <<>>
    /\ kpi_df' = <<>>
    /\ wb_log' = <<>>
    /\ result' = NoValue
    /\ last_ok' = IF result # NoValue /\ result[1].status = 200
                  THEN Some([day |-> now.day, input |-> df_input,
                             fetched |-> all_store_data, wb |-> out_wb])
                  ELSE last_ok
    /\ UNCHANGED <<out_wb, arg, resp, ret>>

\* lines 62-70
Authenticate ==
    /\ pc = "auth"
    /\ pc' = "read"
    /\ UNCHANGED <<now, runs, df_input, all_store_data, calls, merged_df, kpi_df, out_wb,
                   wb_log, result, last_ok, arg, resp, ret>>

\* lines 78-86: a table without rows has no 'store locator' column
ReadInput(tables) ==
    /\ pc = "read"
    /\ \E t \in tables :
          /\ df_input' = t
          /\ IF t = <<>>
             THEN pc' = "done" /\ result' = HandleException("'store locator'")
             ELSE pc' = "fetch" /\ result' = result
    /\ UNCHANGED <<now, runs, all_store_data, calls, merged_df, kpi_df, out_wb, wb_log,
                   last_ok, arg, resp, ret>>

\* line 86: .dropna() keeps every cell that is not None/NaN
store_urls == SelectSeq([i \in 1..Len(df_input) |-> df_input[i].store_locator],
                        LAMBDA v : v.t # "none")

\* lines 87-89, one turn of the loop
FetchRow(responses) ==
    /\ pc = "fetch"
    /\ Len(all_store_data) < Len(store_urls)
    /\ \E r \in responses :
          LET details == get_store_details(store_urls[Len(all_store_data) + 1], r) IN
          /\ all_store_data' = Append(all_store_data, details.ret)
          /\ calls' = calls \o details.calls
    /\ UNCHANGED <<pc, now, runs, df_input, merged_df, kpi_df, out_wb, wb_log, result,
                   last_ok, arg, resp, ret>>

\* lines 91-157: df_fetched[cols_to_merge] raises KeyError when a column is missing
Compute ==
    /\ pc = "fetch"
    /\ Len(all_store_data) = Len(store_urls)
    /\ IF cols_to_merge \subseteq FetchedColumns(all_store_data)
       THEN /\ merged_df' = Merge(df_input, all_store_data)
            /\ kpi_df' = KpiFrame(merged_df', snapshot_date)
            /\ pc' = PcAfter("compute")
            /\ result' = result
       ELSE /\ pc' = "done"
            /\ result' = HandleException("not in index")
            /\ UNCHANGED <<merged_df, kpi_df>>
    /\ UNCHANGED <<now, runs, df_input, all_store_data, calls, out_wb, wb_log, last_ok,
                   arg, resp, ret>>

\* line 161
OpenOutput ==
    /\ pc = "open_out"
    /\ pc' = PcAfter(pc)
    /\ UNCHANGED <<now, runs, df_input, all_store_data, calls, merged_df, kpi_df, out_wb,
                   wb_log, result, last_ok, arg, resp, ret>>

Prepare(title) ==
    /\ out_wb' = ClearOrAdd(out_wb, title)
    /\ wb_log' = Append(wb_log, <<IF title \in DOMAIN out_wb THEN "clear" ELSE "add", title[1]>>)
    /\ pc' = PcAfter(pc)
    /\ result' = Finish(pc)
    /\ UNCHANGED <<now, runs, df_input, all_store_data, calls, merged_df, kpi_df, last_ok,
                   arg, resp, ret>>

Write(title, df) ==
    /\ out_wb' = set_with_dataframe(out_wb, title, df)
    /\ wb_log' = Append(wb_log, <<"set", title[1]>>)
    /\ pc' = PcAfter(pc)
    /\ result' = Finish(pc)
    /\ UNCHANGED <<now, runs, df_input, all_store_data, calls, merged_df, kpi_df, last_ok,
                   arg, resp, ret>>

\* lines 163-168
StoreWorksheet == pc = "store_ws" /\ Prepare(store_worksheet_name(snapshot_date))
\* line 170
StoreWrite == pc = "store_set" /\ Write(store_worksheet_name(snapshot_date), DropStatus(merged_df))
\* lines 172-177
KpiWorksheet == pc = "kpi_ws" /\ Prepare(kpi_worksheet_name(snapshot_date))
\* line 178
KpiWrite == pc = "kpi_set" /\ Write(kpi_worksheet_name(snapshot_date), kpi_df)

\* a call to the secret store or the spreadsheet service raises
FaultPcs == {"auth", "read", "open_out", "store_ws", "store_set", "kpi_ws", "kpi_set"}
FaultText(p) == "fault at " \o p
Fault ==
    /\ pc \in FaultPcs
    /\ pc' = "done"
    /\ result' = HandleException(FaultText(pc))
    /\ UNCHANGED <<now, runs, df_input, all_store_data, calls, merged_df, kpi_df, out_wb,
                   wb_log, last_ok, arg, resp, ret>>

\* one call of get_store_details
CallGetStoreDetails ==
    /\ ret = NoValue
    /\ \E r \in CallResponses :
          /\ resp' = r
          /\ ret' = Some(get_store_details(arg, r))
    /\ UNCHANGED <<arg>>
    /\ UNCHANGED run_vars

\* ------------------------------------------------------- specifications
InitRun ==
    /\ pc = "idle"
    /\ now = [day |-> 1, tick |-> 0]
    /\ runs = 0
    /\ df_input = <<>>
    /\ all_store_data = <<>>
    /\ calls = <<>>
    /\ merged_df = <<>>
    /\ kpi_df = <<>>
    /\ out_wb = EmptyBook
    /\ wb_log = <<>>
    /\ result = NoValue
    /\ last_ok = NoValue

NoCall ==
    /\ arg = None
    /\ resp = RaiseResponse("")
    /\ ret = NoValue

\* runs of the pipeline, with faults of the outside services and reruns
Init == InitRun /\ NoCall
Next ==
    \/ Invoke(MaxRuns)
    \/ Authenticate
    \/ ReadInput(RunTables)
    \/ FetchRow(RunResponses)
    \/ Compute
    \/ OpenOutput
    \/ StoreWorksheet
    \/ StoreWrite
    \/ KpiWorksheet
    \/ KpiWrite
    \/ Fault
Spec == Init /\ [][Next]_vars

\* runs of the pipeline over every table of up to MaxRows rows
NextKpi ==
    \/ Invoke(1)
    \/ Authenticate
    \/ ReadInput(KpiTables)
    \/ FetchRow(KpiResponses)
    \/ Compute
    \/ OpenOutput
    \/ StoreWorksheet
    \/ StoreWrite
    \/ KpiWorksheet
    \/ KpiWrite
SpecKpi == Init /\ [][NextKpi]_vars

\* single calls of get_store_details over every cell value of up to MaxParts parts
InitCall ==
    /\ InitRun
    /\ arg \in CellValues
    /\ resp = RaiseResponse("")
    /\ ret = NoValue
NextCall == CallGetStoreDetails
SpecCall == InitCall /\ [][NextCall]_vars

\* ------------------------------------------------------- properties
Done == pc = "done" /\ result # NoValue
Status == result[1].status
Computed == kpi_df # <<>>
Failed(d) == d.Error # NoValue
StoreSheet == out_wb[store_worksheet_name(snapshot_date)]
KpiSheet == out_wb[kpi_worksheet_name(snapshot_date)]

\* C1 (as claimed): with the secret store and the spreadsheets answering, a
\* run over a table with rows ends with status 200 whatever the per-row
\* outcomes are, and every failed row is in the Store_Data sheet with
\* Total Reviews 0 and Visible Rating 0.
C1_PerRowFailuresNeverAbort ==
    (Done /\ df_input # <<>>) =>
        /\ Status = 200
        /\ \A i \in 1..Len(all_store_data) :
              Failed(all_store_data[i]) =>
                 \E j \in 1..Len(StoreSheet) :
                    /\ StoreSheet[j].Original_URL = all_store_data[i].Original_URL
                    /\ StoreSheet[j].Total_Reviews = 0
                    /\ StoreSheet[j].Rating = 0

\* C4 (as claimed): the merged table has one row per input row, in the
\* input's order, and one EnrichmentResult was produced per input row.
C4_MergeOneToOne ==
    Computed =>
        /\ Len(all_store_data) = Len(df_input)
        /\ Len(merged_df) = Len(df_input)
        /\ \A i \in 1..Len(df_input) :
              /\ merged_df[i].Original_URL = df_input[i].store_locator
              /\ merged_df[i].Experience_Center = df_input[i].Experience_Center
              /\ merged_df[i].Region = df_input[i].Region

\* ---- get_store_details
Called == ret # NoValue
Dict == ret[1].ret
OracleCalls == ret[1].calls
CouldNotExtract == Some(<<"Could not extract Place ID">>)

\* C2 (as claimed): when extract_place_id_from_url gives None for the value,
\* the oracle is not called and Error is "Could not extract Place ID";
\* otherwise it is called exactly once.
C2_CallsOnlyWhenExtracted ==
    Called =>
        IF extract_place_id_from_url(arg) = None
        THEN OracleCalls = <<>> /\ Dict.Error = CouldNotExtract
        ELSE Len(OracleCalls) = 1

\* C2 (amended): the identifier is the extractor's result for a value that
\* contains "https://" and the value itself otherwise.  The oracle is called
\* exactly once, with that identifier, when it is a non-empty string or a
\* non-zero number; otherwise it is not called and Error is "Could not
\* extract Place ID".  In particular a value with "https://" and neither
\* "place_id:" nor "/place/" makes no call.
C2_CallsOnlyWhenResolved ==
    Called =>
        /\ (HasHttps(arg) /\ extract_place_id_from_url(arg) = None) =>
              (OracleCalls = <<>> /\ Dict.Error = CouldNotExtract)
        /\ (HasHttps(arg) /\ extract_place_id_from_url(arg) # None) =>
              (OracleCalls = <<extract_place_id_from_url(arg)>> /\ Dict.Error # CouldNotExtract)
        /\ (~HasHttps(arg) /\ (arg = Empty \/ arg = PyInt(0))) =>
              (OracleCalls = <<>> /\ Dict.Error = CouldNotExtract)
        /\ (~HasHttps(arg) /\ arg # Empty /\ arg # PyInt(0)) =>
              (OracleCalls = <<arg>> /\ Dict.Error # CouldNotExtract)
        /\ (HasHttps(arg) /\ ~Contains(arg.s, PLACE_ID) /\ ~Contains(arg.s, PLACE)) =>
              OracleCalls = <<>>
        /\ Dict.Original_URL = arg

\* a raw identifier: no "https://", nothing for the extractor to find, one call
C2_Witness ==
    /\ Called
    /\ ~HasHttps(arg)
    /\ extract_place_id_from_url(arg) = None
    /\ OracleCalls = <<arg>>

\* C3 (as claimed): a returned dict has either no Error and both Rating and
\* Total Reviews, or an Error and neither.
C3_ErrorXorFields ==
    Called =>
        \/ Dict.Error = NoValue /\ Dict.Rating # NoValue /\ Dict.Total_Reviews # NoValue
        \/ Dict.Error # NoValue /\ Dict.Rating = NoValue /\ Dict.Total_Reviews = NoValue

\* C3 (amended): a returned dict has either (a) no Error, and then the oracle
\* was called and answered OK and Rating and Total Reviews are what its
\* result carries, null for a field the result leaves out; or (b) an Error,
\* and then neither Rating nor Total Reviews.
C3_ErrorOrOracleFields ==
    Called =>
        \/ /\ Dict.Error = NoValue
           /\ Len(OracleCalls) = 1
           /\ resp.kind = "OK"
           /\ Dict.Rating = resp.rating
           /\ Dict.Total_Reviews = resp.user_ratings_total
        \/ /\ Dict.Error # NoValue
           /\ Dict.keys = "error"
           /\ Dict.Rating = NoValue
           /\ Dict.Total_Reviews = NoValue

\* an OK answer without a rating: no Error and no Rating
C3_Witness ==
    /\ Called
    /\ resp.kind = "OK"
    /\ Dict.Error = NoValue
    /\ Dict.Rating = NoValue
    /\ Dict.Total_Reviews # NoValue

\* ---- reruns
SameAsLastOk ==
    /\ last_ok # NoValue
    /\ last_ok[1].day = now.day
    /\ last_ok[1].input = df_input
    /\ last_ok[1].fetched = all_store_data

\* C5: when a run returns 200 on the day of the last run that returned 200,
\* with the same input table and the same oracle answers, the output
\* workbook is what it was after that run: the same worksheets with the
\* same rows, none added.
C5_SameDayRerunIdempotent ==
    (Done /\ Status = 200 /\ SameAsLastOk) => out_wb = last_ok[1].wb

\* a second successful run of the day found both sheets and cleared them
C5_Witness ==
    /\ Done /\ Status = 200 /\ SameAsLastOk
    /\ Len(df_input) > 1
    /\ wb_log = <<<<"clear", "Store_Data">>, <<"set", "Store_Data">>,
                  <<"clear", "KPI_Data">>, <<"set", "KPI_Data">>>>

\* ---- KPI reference, over row numbers of merged_df
OpenRows == {i \in 1..Len(merged_df) : merged_df[i].Api_Business_Status # Some("PERMANENTLY_CLOSED")}
ClosedRows == (1..Len(merged_df)) \ OpenRows

Matches(name, i) ==
    \/ name = "All Wakefit Stores"
    \/ name = "COCO Stores" /\ merged_df[i].Experience_Center = 1
    \/ name = "Non COCO Stores" /\ merged_df[i].Experience_Center = 0
    \/ name \in {"North", "South", "East", "West"} /\ merged_df[i].Region = name

RECURSIVE SumOver(_, _)
SumOver(I, f) ==
    IF I = {} THEN 0 ELSE LET i == CHOOSE x \in I : TRUE IN f[i] + SumOver(I \ {i}, f)

ReviewsOf == [i \in 1..Len(merged_df) |-> merged_df[i].Total_Reviews]
WeightedOf == [i \in 1..Len(merged_df) |-> merged_df[i].Rating * merged_df[i].Total_Reviews]

SegmentIndex == 1..Len(SegmentNames)

\* C6: every PERMANENTLY_CLOSED row of the merged table is in the Store_Data
\* sheet of a finished run and in no segment's No. of Stores, Total Reviews
\* or bucket counts; every other row, a row without status included, is
\* counted in 'All Wakefit Stores'.
C6_ClosedStoresOutOfKpis ==
    /\ Computed =>
          \A k \in SegmentIndex :
             LET rows == {i \in OpenRows : Matches(SegmentNames[k], i)} IN
             /\ kpi_df[k].No_of_Stores = Cardinality(rows)
             /\ kpi_df[k].Total_Reviews = SumOver(rows, ReviewsOf)
             /\ kpi_df[k].Top + kpi_df[k].Mid + kpi_df[k].Low = Cardinality(rows)
             /\ kpi_df[k].Visible_Rating.num = SumOver(rows, WeightedOf)
    /\ Computed => kpi_df[1].No_of_Stores = Len(merged_df) - Cardinality(ClosedRows)
    /\ (Done /\ Status = 200) =>
          /\ Len(StoreSheet) = Len(merged_df)
          /\ \A i \in 1..Len(merged_df) :
                /\ StoreSheet[i].Original_URL = merged_df[i].Original_URL
                /\ StoreSheet[i].Total_Reviews = merged_df[i].Total_Reviews
                /\ StoreSheet[i].Rating = merged_df[i].Rating

\* a finished run with a closed row that has reviews and a row without status
C6_Witness ==
    /\ Done /\ Status = 200
    /\ \E i \in ClosedRows : merged_df[i].Total_Reviews > 0
    /\ \E i \in OpenRows : merged_df[i].Api_Business_Status = NoValue
    /\ kpi_df[1].No_of_Stores < Len(StoreSheet)

\* C7: in every KPI row the three buckets count each row of the segment
\* once: the ratings of 4.9 and more, those from 4.0 up to but not 4.9, and
\* those below 4.0; the three counts add up to No. of Stores.
C7_BucketsPartition ==
    Computed =>
        \A k \in SegmentIndex :
           LET rows == {i \in OpenRows : Matches(SegmentNames[k], i)} IN
           /\ kpi_df[k].Top = Cardinality({i \in rows : merged_df[i].Rating >= 49})
           /\ kpi_df[k].Mid = Cardinality({i \in rows : merged_df[i].Rating \in 40..48})
           /\ kpi_df[k].Low = Cardinality({i \in rows : merged_df[i].Rating <= 39})
           /\ kpi_df[k].Top + kpi_df[k].Mid + kpi_df[k].Low = kpi_df[k].No_of_Stores

\* a segment with a row rated exactly 4.9 and a row rated exactly 4.0
C7_Witness ==
    /\ Computed
    /\ \E k \in SegmentIndex :
          /\ \E i \in OpenRows : Matches(SegmentNames[k], i) /\ merged_df[i].Rating = 49
          /\ \E i \in OpenRows : Matches(SegmentNames[k], i) /\ merged_df[i].Rating = 40
          /\ kpi_df[k].Top >= 1 /\ kpi_df[k].Mid >= 1

\* C8: each KPI row is the reference computed over the non-closed rows that
\* match the segment: the sum of their Total Reviews, their number, and the
\* review-weighted mean of their ratings when the sum is positive, 0 when it
\* is not; a segment without rows has 0 in every count.
C8_KpiEqualsReference ==
    Computed =>
        /\ Len(kpi_df) = Len(SegmentNames)
        /\ \A k \in SegmentIndex :
              LET rows == {i \in OpenRows : Matches(SegmentNames[k], i)}
                  total == SumOver(rows, ReviewsOf)
                  avg == kpi_df[k].Visible_Rating
              IN  /\ kpi_df[k].Segment = SegmentNames[k]
                  /\ kpi_df[k].Total_Reviews = total
                  /\ kpi_df[k].No_of_Stores = Cardinality(rows)
                  /\ avg.den > 0
                  /\ IF total > 0
                     THEN avg.num * total = SumOver(rows, WeightedOf) * avg.den
                     ELSE avg.num = 0
                  /\ rows = {} =>
                        /\ kpi_df[k].Total_Reviews = 0
                        /\ avg.num = 0
                        /\ kpi_df[k].Top = 0 /\ kpi_df[k].Mid = 0 /\ kpi_df[k].Low = 0

\* a segment whose rows differ in rating and in weight, beside an empty one
C8_Witness ==
    /\ Computed
    /\ \E k \in SegmentIndex :
          \E i, j \in OpenRows :
             /\ Matches(SegmentNames[k], i) /\ Matches(SegmentNames[k], j)
             /\ merged_df[i].Rating # merged_df[j].Rating
             /\ merged_df[i].Total_Reviews # merged_df[j].Total_Reviews
             /\ merged_df[i].Total_Reviews > 0 /\ merged_df[j].Total_Reviews > 0
    /\ \E k \in SegmentIndex : kpi_df[k].No_of_Stores = 0

\* ---- the run's return value and the writes
FaultTexts == {FaultText(p) : p \in FaultPcs} \cup {"'store locator'", "not in index"}
BothWritten ==
    /\ wb_log # <<>>
    /\ <<"set", "Store_Data">> \in {wb_log[i] : i \in 1..Len(wb_log)}
    /\ <<"set", "KPI_Data">> \in {wb_log[i] : i \in 1..Len(wb_log)}
    /\ StoreSheet = DropStatus(merged_df)
    /\ KpiSheet = kpi_df

\* C9: a run always ends by returning a (message, status) pair; no run ends
\* otherwise.  Status 200 is returned only after both worksheets have been
\* written; a fault at any step gives status 500 and a message that holds the
\* fault's text.
C9_AlwaysReturnsPair ==
    /\ (pc = "done") <=> (result # NoValue)
    /\ result # NoValue =>
          /\ Status \in {200, 500}
          /\ Status = 200 => BothWritten
          /\ Status = 500 =>
                /\ Len(result[1].message) = 2
                /\ result[1].message[1] = "Pipeline failed: "
                /\ result[1].message[2] \in FaultTexts
                /\ ~(<<"set", "KPI_Data">> \in {wb_log[i] : i \in 1..Len(wb_log)})

\* a run that faulted while writing returned 500 with the fault's text
C9_Witness ==
    /\ Done /\ Status = 500
    /\ result[1].message[2] = FaultText("kpi_set")
    /\ wb_log # <<>>

\* C10: the output workbook changes only in the write step, after every
\* enrichment call, the merge and the seven KPI rows; the Store_Data sheet is
\* written before the KPI_Data sheet is touched.  So a run that faults before
\* the write step leaves the workbook as it was, and none leaves KPI_Data
\* updated without Store_Data.
WritePcs == {"store_ws", "store_set", "kpi_ws", "kpi_set"}
LogOrder ==
    \A i \in 1..Len(wb_log) :
       /\ i = 1 => wb_log[i] \in {<<"clear", "Store_Data">>, <<"add", "Store_Data">>}
       /\ i = 2 => wb_log[i] = <<"set", "Store_Data">>
       /\ i = 3 => wb_log[i] \in {<<"clear", "KPI_Data">>, <<"add", "KPI_Data">>}
       /\ i = 4 => wb_log[i] = <<"set", "KPI_Data">>
       /\ i <= 4
C10_WritesLastAndInOrder ==
    /\ [](LogOrder /\ (wb_log # <<>> =>
                          /\ Len(all_store_data) = Len(df_input)
                          /\ Len(kpi_df) = Len(SegmentNames)
                          /\ Len(wb_log) >= 2 => StoreSheet = DropStatus(merged_df)))
    /\ [][out_wb' # out_wb => (pc \in WritePcs /\ wb_log' = Append(wb_log, wb_log'[Len(wb_log')]))]_vars
    /\ [][wb_log' # wb_log => (pc \in WritePcs \/ wb_log' = <<>>)]_vars

\* a fault between the two writes: Store_Data updated, KPI_Data not touched
C10_Witness ==
    /\ Done /\ Status = 500
    /\ wb_log = <<<<"clear", "Store_Data">>, <<"set", "Store_Data">>>>
    /\ StoreSheet = DropStatus(merged_df)
    /\ kpi_worksheet_name(snapshot_date) \notin DOMAIN out_wb

====
